---- MODULE Spec2Model ----
(***************************************************************************)
(* stm32f30x-hal: clock configuration (src/rcc.rs) and GPIO pin typestate  *)
(* (src/gpio.rs) as state machines.                                        *)
(*                                                                         *)
(* Frequencies are u32 values in Hz.  Every frequency of the model is      *)
(* below 2^31, so 2 * sysclk never wraps.  32-bit registers are modelled   *)
(* as the set of bit positions that are 1.                                 *)
(***************************************************************************)
EXTENDS Integers, Sequences, FiniteSets, TLC

(***************************************************************************)
(* Bounds and inputs                                                       *)
(***************************************************************************)
\* number of times the PLL-ready poll may read the bit clear before the
\* model stops counting further reads
MaxPolls == 2

\* frequencies handed to CFGR::sysclk
SysclkTargets ==
    { 4000000, 8000000, 10000000, 11999999, 12000000, 24000000, 28000000,
      30000000, 36000000, 48000000, 52000000, 64000000, 72000000, 80000000 }

\* frequencies handed to CFGR::hclk
HclkTargets ==
    { 0, 100000, 1000000, 5000000, 8000000, 16000000, 36000000, 64000000,
      72000000 }

\* frequencies handed to CFGR::pclk1
Pclk1Targets == { 0, 1000000, 5000000, 18000000, 24000000, 32000000, 36000000 }

\* frequencies handed to CFGR::pclk2
Pclk2Targets == { 1000000, 5000000, 32000000, 72000000 }

(***************************************************************************)
(* Option<u32>: None is the empty set, Some(x) the singleton               *)
(***************************************************************************)
None == {}

Some(x) == {x}

unwrap(o) == CHOOSE x \in o : TRUE

unwrap_or(o, d) == IF o = None THEN d ELSE unwrap(o)

min(a, b) == IF a < b THEN a ELSE b

max(a, b) == IF a > b THEN a ELSE b

Pow2(n) == 2 ^ n

(***************************************************************************)
(* rcc.rs: CFGR::freeze, the computation (lines 146-207)                   *)
(***************************************************************************)
HSI == 8000000

\* a match arm that is unreachable!() and a division by zero both panic;
\* the value they stand for is never used
Unreachable == -1

DivideByZero == -2

\* mutant: the quotient rounded up instead of down
pllmul_raw_round_up(cfg) == (2 * unwrap_or(cfg.sysclk, HSI) + HSI - 1) \div HSI

\* line 146: let pllmul = (2 * self.sysclk.unwrap_or(HSI)) / HSI;
pllmul_raw(cfg) == (2 * unwrap_or(cfg.sysclk, HSI)) \div HSI

\* mutant: the multiplier clamped to 20 instead of 16
pllmul_clamp_20(cfg) == min(max(pllmul_raw(cfg), 2), 20)

\* mutant: the multiplier clamped to 18, which would reach 72 MHz
pllmul_clamp_18(cfg) == min(max(pllmul_raw(cfg), 2), 18)

\* line 147: let pllmul = cmp::min(cmp::max(pllmul, 2), 16);
pllmul(cfg) == min(max(pllmul_raw(cfg), 2), 16)

\* mutant: the PLL used for every multiplier, 2 included
pllmul_bits_always_pll(cfg) == Some(pllmul(cfg) - 2)

\* mutant: the oscillator used directly up to a multiplier of 3
pllmul_bits_bypass_3(cfg) == IF pllmul(cfg) <= 3 THEN None ELSE Some(pllmul(cfg) - 2)

\* lines 148-152
pllmul_bits(cfg) == IF pllmul(cfg) = 2 THEN None ELSE Some(pllmul(cfg) - 2)

\* line 154
sysclk(cfg) == (pllmul(cfg) * HSI) \div 2

\* mutant: the buckets cut at the powers of two (5 goes with 8, not with 4)
hpre_match_pow2_buckets(ratio) ==
    CASE ratio = 0 -> Unreachable
      [] ratio = 1 -> 7
      [] ratio = 2 -> 8
      [] ratio \in 3..4 -> 9
      [] ratio \in 5..8 -> 10
      [] ratio \in 9..16 -> 11
      [] ratio \in 17..64 -> 12
      [] ratio \in 65..128 -> 13
      [] ratio \in 129..256 -> 14
      [] OTHER -> 15

\* lines 159-170: the AHB ratio table
hpre_match(ratio) ==
    CASE ratio = 0 -> Unreachable
      [] ratio = 1 -> 7
      [] ratio = 2 -> 8
      [] ratio \in 3..5 -> 9
      [] ratio \in 6..11 -> 10
      [] ratio \in 12..39 -> 11
      [] ratio \in 40..95 -> 12
      [] ratio \in 96..191 -> 13
      [] ratio \in 192..383 -> 14
      [] OTHER -> 15

\* lines 158-171
hpre_bits(cfg) ==
    IF cfg.hclk = None THEN 7
    ELSE IF unwrap(cfg.hclk) = 0 THEN DivideByZero
    ELSE hpre_match(sysclk(cfg) \div unwrap(cfg.hclk))

\* line 173: let hclk = sysclk / (1 << (hpre_bits - 0b0111));
hclk(cfg) ==
    IF hpre_bits(cfg) < 0 THEN hpre_bits(cfg)
    ELSE sysclk(cfg) \div Pow2(hpre_bits(cfg) - 7)

\* mutant: a ratio of zero taken as "no division" instead of unreachable!()
ppre_match_zero_is_one(ratio) ==
    CASE ratio \in 0..1 -> 3
      [] ratio = 2 -> 4
      [] ratio \in 3..5 -> 5
      [] ratio \in 6..11 -> 6
      [] OTHER -> 7

\* mutant: a ratio of 2 programmed as "no division"
ppre_match_two_is_one(ratio) ==
    CASE ratio = 0 -> Unreachable
      [] ratio \in 1..2 -> 3
      [] ratio \in 3..5 -> 5
      [] ratio \in 6..11 -> 6
      [] OTHER -> 7

\* lines 178-185 and 194-201: the APB ratio table
ppre_match(ratio) ==
    CASE ratio = 0 -> Unreachable
      [] ratio = 1 -> 3
      [] ratio = 2 -> 4
      [] ratio \in 3..5 -> 5
      [] ratio \in 6..11 -> 6
      [] OTHER -> 7

\* the prescaler bits of one APB bus from its target and the AHB clock
ppre_bits_of(target, h) ==
    IF target = None THEN 3
    ELSE IF unwrap(target) = 0 THEN DivideByZero
    ELSE ppre_match(h \div unwrap(target))

\* lines 177-186
ppre1_bits(cfg) == ppre_bits_of(cfg.pclk1, hclk(cfg))

\* line 188
ppre1(cfg) == Pow2(ppre1_bits(cfg) - 3)

\* line 189
pclk1(cfg) == hclk(cfg) \div ppre1(cfg)

\* lines 193-202
ppre2_bits(cfg) == ppre_bits_of(cfg.pclk2, hclk(cfg))

\* line 204
ppre2(cfg) == Pow2(ppre2_bits(cfg) - 3)

\* line 205
pclk2(cfg) == hclk(cfg) \div ppre2(cfg)

\* mutant: the thresholds compared with < instead of <=
latency_bits_strict(s) ==
    IF s < 24000000 THEN 0
    ELSE IF s < 48000000 THEN 1
    ELSE 2

\* lines 212-218
latency_bits(s) ==
    IF s <= 24000000 THEN 0
    ELSE IF s <= 48000000 THEN 1
    ELSE 2

\* mutant: the APB1 check made against the 72 MHz limit of the other buses
freeze_panic_apb1_72(cfg) ==
    IF ~(sysclk(cfg) <= 72000000) THEN "assert_sysclk"
    ELSE IF hpre_bits(cfg) = DivideByZero THEN "div_zero_hclk"
    ELSE IF hpre_bits(cfg) = Unreachable THEN "unreachable_hclk"
    ELSE IF ~(hclk(cfg) <= 72000000) THEN "assert_hclk"
    ELSE IF ppre1_bits(cfg) = DivideByZero THEN "div_zero_pclk1"
    ELSE IF ppre1_bits(cfg) = Unreachable THEN "unreachable_pclk1"
    ELSE IF ~(pclk1(cfg) <= 72000000) THEN "assert_pclk1"
    ELSE IF ppre2_bits(cfg) = DivideByZero THEN "div_zero_pclk2"
    ELSE IF ppre2_bits(cfg) = Unreachable THEN "unreachable_pclk2"
    ELSE IF ~(pclk2(cfg) <= 72000000) THEN "assert_pclk2"
    ELSE "none"

\* the first panic that lines 146-207 run into, in program order, or "none"
freeze_panic(cfg) ==
    IF ~(sysclk(cfg) <= 72000000) THEN "assert_sysclk"
    ELSE IF hpre_bits(cfg) = DivideByZero THEN "div_zero_hclk"
    ELSE IF hpre_bits(cfg) = Unreachable THEN "unreachable_hclk"
    ELSE IF ~(hclk(cfg) <= 72000000) THEN "assert_hclk"
    ELSE IF ppre1_bits(cfg) = DivideByZero THEN "div_zero_pclk1"
    ELSE IF ppre1_bits(cfg) = Unreachable THEN "unreachable_pclk1"
    ELSE IF ~(pclk1(cfg) <= 36000000) THEN "assert_pclk1"
    ELSE IF ppre2_bits(cfg) = DivideByZero THEN "div_zero_pclk2"
    ELSE IF ppre2_bits(cfg) = Unreachable THEN "unreachable_pclk2"
    ELSE IF ~(pclk2(cfg) <= 72000000) THEN "assert_pclk2"
    ELSE "none"

(***************************************************************************)
(* State                                                                   *)
(***************************************************************************)
VARIABLES
    cfgr,       \* the CFGR builder: hclk, pclk1, pclk2, sysclk : Option<u32>
    calls,      \* the argument of the last call of each setter (history)
    pc,         \* position of the caller: building, inside freeze, done, panic
    panic,      \* which panic ended freeze ("none" while there was none)
    flash_acr,  \* FLASH.ACR: the latency field
    rcc_cfgr,   \* RCC.CFGR: pllmul, ppre2, ppre1, hpre, sw
    rcc_cr,     \* RCC.CR: pllon, pllrdy
    log,        \* the register writes of freeze, in program order
    polls,      \* reads of PLLRDY that found it clear
    clocks,     \* the Clocks that freeze returned: Option<Clocks>
    ahbenr,     \* RCC.AHBENR, the set of its bits that are 1
    ahbrstr,    \* RCC.AHBRSTR
    split_pc,   \* position of the caller inside GpioExt::split
    moder,      \* GPIOA.MODER
    pupdr,      \* GPIOA.PUPDR
    otyper,     \* GPIOA.OTYPER
    afrl,       \* GPIOA.AFRL
    afrh,       \* GPIOA.AFRH
    pins,       \* the mode tag (the type parameter) of each pin of Parts
    moder0,     \* GPIOA.MODER as it was when the run began (history)
    odr,        \* GPIOA.ODR
    bsrr,       \* the last write to GPIOA.BSRR: the pin whose handle wrote and
                \* the word written (Option; the register reads as zero)
    pxx,        \* per pin, the index stored in its erased handle $PXx
                \* (Option: None while the pin is held as $PXi)
    level,      \* per pin, the last level written through its handle (history)
    main,       \* a transition run one register access at a time: its pin and
                \* function, its position, the word its last read returned,
                \* and the registers as they were before it (history)
    isr         \* a transition run inside an interrupt handler: its pin and
                \* function, and the position of main when it ran (history)

rcc_vars ==
    << cfgr, calls, pc, panic, flash_acr, rcc_cfgr, rcc_cr, log, polls, clocks >>

ahb_vars == << ahbenr, ahbrstr, split_pc >>

\* what neither split nor a pin transition touches, the RCC side apart
rest_vars == << moder0, odr, bsrr, pxx, level, main, isr >>

gpio_vars ==
    << ahb_vars, moder, pupdr, otyper, afrl, afrh, pins, rest_vars >>

vars == << cfgr, calls, pc, panic, flash_acr, rcc_cfgr, rcc_cr, log, polls,
           clocks,
           ahbenr, ahbrstr, split_pc, moder, pupdr, otyper, afrl, afrh, pins,
           moder0, odr, bsrr, pxx, level, main, isr >>

\* reset values of the fields of RCC.CFGR that freeze touches
CFGR_RESET == [pllmul |-> 0, ppre2 |-> 0, ppre1 |-> 0, hpre |-> 0, sw |-> 0]

\* RccExt::constraint, on the registers as reset left them
RccInit ==
    /\ cfgr = [hclk |-> None, pclk1 |-> None, pclk2 |-> None, sysclk |-> None]
    /\ calls = [hclk |-> None, pclk1 |-> None, pclk2 |-> None, sysclk |-> None]
    /\ pc = "build"
    /\ panic = "none"
    /\ flash_acr = [latency |-> 0]
    /\ rcc_cfgr = CFGR_RESET
    /\ rcc_cr = [pllon |-> 0, pllrdy |-> 0]
    /\ log = << >>
    /\ polls = 0
    /\ clocks = None

hw_unchanged == UNCHANGED << flash_acr, rcc_cfgr, rcc_cr, log, polls,
                             gpio_vars >>

(***************************************************************************)
(* rcc.rs: the CFGR setters (lines 109-142)                                *)
(***************************************************************************)
CFGR_hclk ==
    /\ pc = "build"
    /\ \E freq \in HclkTargets :
          /\ cfgr' = [cfgr EXCEPT !.hclk = Some(freq)]
          /\ calls' = [calls EXCEPT !.hclk = Some(freq)]
    /\ UNCHANGED << pc, panic, clocks >>
    /\ hw_unchanged

\* mutant: the pclk1 setter storing into the field of pclk2
CFGR_pclk1_sets_pclk2 ==
    /\ pc = "build"
    /\ \E freq \in Pclk1Targets :
          /\ cfgr' = [cfgr EXCEPT !.pclk2 = Some(freq)]
          /\ calls' = [calls EXCEPT !.pclk1 = Some(freq)]
    /\ UNCHANGED << pc, panic, clocks >>
    /\ hw_unchanged

CFGR_pclk1 ==
    /\ pc = "build"
    /\ \E freq \in Pclk1Targets :
          /\ cfgr' = [cfgr EXCEPT !.pclk1 = Some(freq)]
          /\ calls' = [calls EXCEPT !.pclk1 = Some(freq)]
    /\ UNCHANGED << pc, panic, clocks >>
    /\ hw_unchanged

CFGR_pclk2 ==
    /\ pc = "build"
    /\ \E freq \in Pclk2Targets :
          /\ cfgr' = [cfgr EXCEPT !.pclk2 = Some(freq)]
          /\ calls' = [calls EXCEPT !.pclk2 = Some(freq)]
    /\ UNCHANGED << pc, panic, clocks >>
    /\ hw_unchanged

CFGR_sysclk ==
    /\ pc = "build"
    /\ \E freq \in SysclkTargets :
          /\ cfgr' = [cfgr EXCEPT !.sysclk = Some(freq)]
          /\ calls' = [calls EXCEPT !.sysclk = Some(freq)]
    /\ UNCHANGED << pc, panic, clocks >>
    /\ hw_unchanged

(***************************************************************************)
(* rcc.rs: CFGR::freeze (lines 145-267), one action per hardware access    *)
(***************************************************************************)
\* mutant: the clock switched right after PLLON is set, the wait left out
freeze_next_no_poll(p, cfg) ==
    CASE p = "build" -> "write_latency"
      [] p = "write_latency" ->
            IF pllmul_bits(cfg) # None THEN "write_pllmul" ELSE "commit_hsi"
      [] p = "write_pllmul" -> "write_pllon"
      [] p = "write_pllon" -> "commit_pll"
      [] p = "poll_pllrdy" -> "commit_pll"
      [] p = "commit_pll" -> "done"
      [] p = "commit_hsi" -> "done"

\* mutant: the flash latency adjusted after the clock switch, not before
freeze_next_latency_last(p, cfg) ==
    CASE p = "build" ->
            IF pllmul_bits(cfg) # None THEN "write_pllmul" ELSE "commit_hsi"
      [] p = "write_pllmul" -> "write_pllon"
      [] p = "write_pllon" -> "poll_pllrdy"
      [] p = "poll_pllrdy" -> "commit_pll"
      [] p = "commit_pll" -> "write_latency"
      [] p = "commit_hsi" -> "write_latency"
      [] p = "write_latency" -> "done"

\* the order of the statements of freeze from line 209 on: where control
\* goes after the step at p
freeze_next(p, cfg) ==
    CASE p = "build" -> "write_latency"
      [] p = "write_latency" ->
            IF pllmul_bits(cfg) # None THEN "write_pllmul" ELSE "commit_hsi"
      [] p = "write_pllmul" -> "write_pllon"
      [] p = "write_pllon" -> "poll_pllrdy"
      [] p = "poll_pllrdy" -> "commit_pll"
      [] p = "commit_pll" -> "done"
      [] p = "commit_hsi" -> "done"

\* mutant: the flash latency written before the checks are made
freeze_compute_after_latency ==
    /\ pc = "build"
    /\ flash_acr' = [latency |-> latency_bits(sysclk(cfgr))]
    /\ log' = Append(log, "FLASH.ACR.write")
    /\ panic' = freeze_panic(cfgr)
    /\ pc' = IF freeze_panic(cfgr) = "none"
               THEN freeze_next("write_latency", cfgr)
               ELSE "panic"
    /\ UNCHANGED << cfgr, calls, clocks, rcc_cfgr, rcc_cr, polls, gpio_vars >>

\* lines 146-207: compute the settings, panic on the first failed check
freeze_compute ==
    /\ pc = "build"
    /\ panic' = freeze_panic(cfgr)
    /\ pc' = IF freeze_panic(cfgr) = "none" THEN freeze_next(pc, cfgr) ELSE "panic"
    /\ UNCHANGED << cfgr, calls, clocks >>
    /\ hw_unchanged

\* lines 210-220: acr.acr().write(latency), then the branch of line 223
freeze_write_latency ==
    /\ pc = "write_latency"
    /\ flash_acr' = [latency |-> latency_bits(sysclk(cfgr))]
    /\ log' = Append(log, "FLASH.ACR.write")
    /\ pc' = freeze_next(pc, cfgr)
    /\ UNCHANGED << cfgr, calls, panic, rcc_cfgr, rcc_cr, polls, clocks,
                    gpio_vars >>

\* line 226: rcc.cfgr.write(|w| w.pllmul().bits(pllmul_bits))
freeze_write_pllmul ==
    /\ pc = "write_pllmul"
    /\ rcc_cfgr' = [CFGR_RESET EXCEPT !.pllmul = unwrap(pllmul_bits(cfgr))]
    /\ log' = Append(log, "RCC.CFGR.write.pllmul")
    /\ pc' = freeze_next(pc, cfgr)
    /\ UNCHANGED << cfgr, calls, panic, flash_acr, rcc_cr, polls, clocks,
                    gpio_vars >>

\* line 228: rcc.cr.write(|w| w.pllon().set_bit()); PLLRDY is read-only
freeze_write_pllon ==
    /\ pc = "write_pllon"
    /\ rcc_cr' = [rcc_cr EXCEPT !.pllon = 1]
    /\ log' = Append(log, "RCC.CR.write.pllon")
    /\ pc' = freeze_next(pc, cfgr)
    /\ UNCHANGED << cfgr, calls, panic, flash_acr, rcc_cfgr, polls, clocks,
                    gpio_vars >>

\* mutant: the loop condition inverted (bit_is_set for bit_is_clear)
pllrdy_is_set(cr) == cr.pllrdy = 1

\* the loop condition of line 230: is PLLRDY clear?
pllrdy_is_clear(cr) == cr.pllrdy = 0

\* line 230: while rcc.cr.read().pllrdy().bit_is_clear() {}
freeze_poll_pllrdy ==
    /\ pc = "poll_pllrdy"
    /\ IF pllrdy_is_clear(rcc_cr)
         THEN /\ polls < MaxPolls
              /\ polls' = polls + 1
              /\ pc' = pc
         ELSE /\ polls' = polls
              /\ pc' = freeze_next(pc, cfgr)
    /\ UNCHANGED << cfgr, calls, panic, flash_acr, rcc_cfgr, rcc_cr, log,
                    clocks, gpio_vars >>

\* the hardware: an enabled PLL locks and raises PLLRDY at some time
pll_lock ==
    /\ rcc_cr.pllon = 1
    /\ rcc_cr.pllrdy = 0
    /\ rcc_cr' = [rcc_cr EXCEPT !.pllrdy = 1]
    /\ UNCHANGED << cfgr, calls, pc, panic, flash_acr, rcc_cfgr, log, polls,
                    clocks, gpio_vars >>

\* lines 259-266: the Clocks that freeze returns
Clocks(cfg) ==
    [hclk |-> hclk(cfg), pclk1 |-> pclk1(cfg), pclk2 |-> pclk2(cfg),
     ppre1 |-> ppre1(cfg), ppre2 |-> ppre2(cfg), sysclk |-> sysclk(cfg)]

\* lines 233-242: rcc.cfgr.modify(ppre2, ppre1, hpre, sw = 0b10), then return
freeze_commit_pll ==
    /\ pc = "commit_pll"
    /\ rcc_cfgr' = [rcc_cfgr EXCEPT !.ppre2 = ppre2_bits(cfgr),
                                    !.ppre1 = ppre1_bits(cfgr),
                                    !.hpre = hpre_bits(cfgr),
                                    !.sw = 2]
    /\ log' = Append(log, "RCC.CFGR.modify.sw")
    /\ clocks' = Some(Clocks(cfgr))
    /\ pc' = freeze_next(pc, cfgr)
    /\ UNCHANGED << cfgr, calls, panic, flash_acr, rcc_cr, polls, gpio_vars >>

\* lines 247-256: rcc.cfgr.write(ppre2, ppre1, hpre, sw = 0b00), then return
freeze_commit_hsi ==
    /\ pc = "commit_hsi"
    /\ rcc_cfgr' = [CFGR_RESET EXCEPT !.ppre2 = ppre2_bits(cfgr),
                                      !.ppre1 = ppre1_bits(cfgr),
                                      !.hpre = hpre_bits(cfgr),
                                      !.sw = 0]
    /\ log' = Append(log, "RCC.CFGR.write.sw")
    /\ clocks' = Some(Clocks(cfgr))
    /\ pc' = freeze_next(pc, cfgr)
    /\ UNCHANGED << cfgr, calls, panic, flash_acr, rcc_cr, polls, gpio_vars >>

(***************************************************************************)
(* 32-bit registers as sets of the positions of their 1 bits               *)
(***************************************************************************)
Bits32 == 0..31

\* the u32 with the binary digits of n, for n < 2^31
u32(n) == { b \in 0..30 : (n \div (2 ^ b)) % 2 = 1 }

\* v << n, with the bits shifted past bit 31 lost
shl(v, n) == { b + n : b \in v } \cap Bits32

\* !v
not(v) == Bits32 \ v

\* a & b
and(a, b) == a \cap b

\* a | b
or(a, b) == a \cup b

(***************************************************************************)
(* gpio.rs: the bank GPIOA (lines 493-511)                                 *)
(***************************************************************************)
\* the pins of the gpio! table that the application holds and reconfigures.
\* After split on GPIOA these are PA1, whose nibble is in AFRL, and PA10,
\* whose is in AFRH
ModelPins == DOMAIN pins

\* the pin indices of the gpio! tables
PinIndices == 0..15

\* mutant: a row of the table naming AFRL for a pin of the high half
AFR_always_low(i) == "AFRL"

\* the $AFR column of the table: AFRL for PA0-PA7, AFRH for PA8-PA12
AFR(i) == IF i \in 0..7 THEN "AFRL" ELSE "AFRH"

\* bit of iopaen in AHBENR and of ioparst in AHBRSTR
IOPA == 17

\* what the reset of the bank leaves in its registers: PA13, PA14 and PA15
\* are the debug pins (alternate function, pulled), every other field is 0
MODER_RESET == { 27, 29, 31 }

PUPDR_RESET == { 26, 29, 30 }

\* AHBENR after reset: FLITFEN and SRAMEN
AHBENR_RESET == { 2, 4 }

\* no transition is being run one access at a time, none in a handler
Idle == [op |-> "none"]

\* register contents that earlier code may have left in the bank before
\* split: the reset state; PA1 and PA10 as pulled open-drain outputs with
\* nibbles 5 and 7; PA1 and PA10 in alternate function mode with nibbles
\* 2 and 8; with them, contents of the AHB enable and reset registers:
\* as reset left them, with another bank enabled and a third held in
\* reset, and with the clock of GPIOA enabled before the call
PreSplit ==
    { [moder |-> MODER_RESET, pupdr |-> PUPDR_RESET, otyper |-> {},
       afrl |-> {}, afrh |-> {},
       ahbenr |-> AHBENR_RESET, ahbrstr |-> {}],
      [moder |-> MODER_RESET \cup { 2, 20 }, pupdr |-> PUPDR_RESET \cup { 2, 21 },
       otyper |-> { 1, 10 }, afrl |-> { 4, 6 }, afrh |-> { 8, 9, 10 },
       ahbenr |-> AHBENR_RESET \cup { 18 }, ahbrstr |-> { 19 }],
      [moder |-> MODER_RESET \cup { 3, 21 }, pupdr |-> PUPDR_RESET,
       otyper |-> { 3 }, afrl |-> { 5 }, afrh |-> { 0, 11 },
       ahbenr |-> AHBENR_RESET \cup { IOPA, 0 }, ahbrstr |-> {}] }

GpioInit ==
    /\ split_pc = "enr"
    /\ \E r \in PreSplit :
          /\ ahbenr = r.ahbenr
          /\ ahbrstr = r.ahbrstr
          /\ moder = r.moder
          /\ pupdr = r.pupdr
          /\ otyper = r.otyper
          /\ afrl = r.afrl
          /\ afrh = r.afrh
    /\ pins = [i \in { 1, 10 } |-> "unsplit"]
    /\ moder0 = moder
    /\ odr = {}
    /\ bsrr = None
    /\ pxx = [i \in DOMAIN pins |-> None]
    /\ level = [i \in DOMAIN pins |-> "unknown"]
    /\ main = Idle
    /\ isr = Idle

\* the bank as reset left it, GPIOA not yet split
GpioReset ==
    /\ ahbenr = AHBENR_RESET
    /\ ahbrstr = {}
    /\ split_pc = "enr"
    /\ moder = MODER_RESET
    /\ pupdr = PUPDR_RESET
    /\ otyper = {}
    /\ afrl = {}
    /\ afrh = {}
    /\ pins = [i \in { 1, 10 } |-> "unsplit"]
    /\ moder0 = moder
    /\ odr = {}
    /\ bsrr = None
    /\ pxx = [i \in DOMAIN pins |-> None]
    /\ level = [i \in DOMAIN pins |-> "unknown"]
    /\ main = Idle
    /\ isr = Idle

(***************************************************************************)
(* gpio.rs: GpioExt::split (lines 130-145), one action per register access *)
(***************************************************************************)
\* mutant: the reset deasserted before it is asserted
split_next_deassert_first(p) ==
    CASE p = "enr" -> "rstr_clear"
      [] p = "rstr_clear" -> "rstr_set"
      [] p = "rstr_set" -> "return"
      [] p = "return" -> "done"

\* the order of the statements of split: where control goes after the step
\* at p
split_next(p) ==
    CASE p = "enr" -> "rstr_set"
      [] p = "rstr_set" -> "rstr_clear"
      [] p = "rstr_clear" -> "return"
      [] p = "return" -> "done"

split_unchanged ==
    UNCHANGED << cfgr, calls, pc, panic, flash_acr, rcc_cfgr, rcc_cr, polls,
                 clocks, rest_vars >>

\* line 131: ahb.enr().modify(|_, w| w.$iopxenr().enabled())
split_enable ==
    /\ split_pc = "enr"
    /\ ahbenr' = or(ahbenr, {IOPA})
    /\ log' = Append(log, "RCC.AHBENR.modify.iopaen.enabled")
    /\ split_pc' = split_next(split_pc)
    /\ UNCHANGED << ahbrstr, moder, pupdr, otyper, afrl, afrh, pins >>
    /\ split_unchanged

\* line 132: ahb.rstr().modify(|_, w| w.$iopxrst().set_bit()).  Setting
\* ioparst resets the registers of the bank
split_assert_reset ==
    /\ split_pc = "rstr_set"
    /\ ahbrstr' = or(ahbrstr, {IOPA})
    /\ moder' = MODER_RESET
    /\ pupdr' = PUPDR_RESET
    /\ otyper' = {}
    /\ afrl' = {}
    /\ afrh' = {}
    /\ log' = Append(log, "RCC.AHBRSTR.modify.ioparst.set_bit")
    /\ split_pc' = split_next(split_pc)
    /\ UNCHANGED << ahbenr, pins >>
    /\ split_unchanged

\* line 133: ahb.rstr().modify(|_, w| w.$iopxrst().clear_bit())
split_deassert_reset ==
    /\ split_pc = "rstr_clear"
    /\ ahbrstr' = and(ahbrstr, not({IOPA}))
    /\ log' = Append(log, "RCC.AHBRSTR.modify.ioparst.clear_bit")
    /\ split_pc' = split_next(split_pc)
    /\ UNCHANGED << ahbenr, moder, pupdr, otyper, afrl, afrh, pins >>
    /\ split_unchanged

\* lines 135-144: the Parts returned, every pin as $PXi<Input<Floating>>
\* (the $MODE column of the table)
split_return ==
    /\ split_pc = "return"
    /\ pins' = [i \in ModelPins |-> "Input<Floating>"]
    /\ split_pc' = split_next(split_pc)
    /\ UNCHANGED << ahbenr, ahbrstr, moder, pupdr, otyper, afrl, afrh >>
    /\ UNCHANGED << rcc_vars, rest_vars >>

\* mutant: the mode field of pin i taken to start at bit i
mode_offset_one_bit(i) == i

\* lines 243, 336, ...: let offset = 2 * $i;
mode_offset(i) == 2 * i

\* mutant: the nibble offset taken from the pin index without the % 8
af_offset_no_wrap(i) == 4 * i

\* lines 252, 275, 298, 321: let offset = 4 * ($i % 8);
af_offset(i) == 4 * (i % 8)

\* mutant: the field written without keeping the other bits of the register
modify_field_blind(r, mask, value, offset) == shl(u32(value), offset)

\* (r.bits() & !(mask << offset)) | (value << offset)
modify_field(r, mask, value, offset) ==
    or(and(r, not(shl(u32(mask), offset))), shl(u32(value), offset))

\* the body shared by as_af4 .. as_af7 (lines 238-328)
into_af(i, af, tag) ==
    /\ pins[i] \notin { "unsplit" }
    /\ pxx[i] = None
    /\ moder' = modify_field(moder, 3, 2, mode_offset(i))
    /\ IF AFR(i) = "AFRL"
         THEN /\ afrl' = modify_field(afrl, 15, af, af_offset(i))
              /\ afrh' = afrh
         ELSE /\ afrh' = modify_field(afrh, 15, af, af_offset(i))
              /\ afrl' = afrl
    /\ pins' = [pins EXCEPT ![i] = tag]
    /\ UNCHANGED << ahb_vars, pupdr, otyper >>
    /\ UNCHANGED << rcc_vars, rest_vars >>

\* lines 238-258
as_af4 == \E i \in ModelPins : into_af(i, 4, "AF4")

\* lines 261-281
as_af5 == \E i \in ModelPins : into_af(i, 5, "AF5")

\* lines 284-304
as_af6 == \E i \in ModelPins : into_af(i, 6, "AF6")

\* lines 307-328
as_af7 == \E i \in ModelPins : into_af(i, 7, "AF7")

\* lines 331-349
as_floating_input ==
    \E i \in ModelPins :
        /\ pins[i] \notin { "unsplit" }
        /\ pxx[i] = None
        /\ moder' = and(moder, not(shl(u32(3), mode_offset(i))))
        /\ pupdr' = and(pupdr, not(shl(u32(3), mode_offset(i))))
        /\ pins' = [pins EXCEPT ![i] = "Input<Floating>"]
        /\ UNCHANGED << ahb_vars, otyper, afrl, afrh >>
        /\ UNCHANGED << rcc_vars, rest_vars >>

\* lines 352-370
as_pull_down_input ==
    \E i \in ModelPins :
        /\ pins[i] \notin { "unsplit" }
        /\ pxx[i] = None
        /\ moder' = and(moder, not(shl(u32(3), mode_offset(i))))
        /\ pupdr' = modify_field(pupdr, 3, 2, mode_offset(i))
        /\ pins' = [pins EXCEPT ![i] = "Input<PullDown>"]
        /\ UNCHANGED << ahb_vars, otyper, afrl, afrh >>
        /\ UNCHANGED << rcc_vars, rest_vars >>

\* lines 373-391
as_pull_up_input ==
    \E i \in ModelPins :
        /\ pins[i] \notin { "unsplit" }
        /\ pxx[i] = None
        /\ moder' = and(moder, not(shl(u32(3), mode_offset(i))))
        /\ pupdr' = modify_field(pupdr, 3, 1, mode_offset(i))
        /\ pins' = [pins EXCEPT ![i] = "Input<PullUp>"]
        /\ UNCHANGED << ahb_vars, otyper, afrl, afrh >>
        /\ UNCHANGED << rcc_vars, rest_vars >>

\* lines 394-413
as_open_drain_output ==
    \E i \in ModelPins :
        /\ pins[i] \notin { "unsplit" }
        /\ pxx[i] = None
        /\ moder' = modify_field(moder, 3, 1, mode_offset(i))
        /\ otyper' = or(otyper, shl(u32(1), i))
        /\ pins' = [pins EXCEPT ![i] = "Output<OpenDrain>"]
        /\ UNCHANGED << ahb_vars, pupdr, afrl, afrh >>
        /\ UNCHANGED << rcc_vars, rest_vars >>

\* mutant: the pull of the pin switched off on the way to push-pull output
as_push_pull_output_no_pull ==
    \E i \in ModelPins :
        /\ pins[i] \notin { "unsplit" }
        /\ pxx[i] = None
        /\ moder' = modify_field(moder, 3, 1, mode_offset(i))
        /\ otyper' = and(otyper, not(shl(u32(1), i)))
        /\ pupdr' = and(pupdr, not(shl(u32(3), mode_offset(i))))
        /\ pins' = [pins EXCEPT ![i] = "Output<PushPull>"]
        /\ UNCHANGED << ahb_vars, afrl, afrh >>
        /\ UNCHANGED << rcc_vars, rest_vars >>

\* lines 416-435
as_push_pull_output ==
    \E i \in ModelPins :
        /\ pins[i] \notin { "unsplit" }
        /\ pxx[i] = None
        /\ moder' = modify_field(moder, 3, 1, mode_offset(i))
        /\ otyper' = and(otyper, not(shl(u32(1), i)))
        /\ pins' = [pins EXCEPT ![i] = "Output<PushPull>"]
        /\ UNCHANGED << ahb_vars, pupdr, afrl, afrh >>
        /\ UNCHANGED << rcc_vars, rest_vars >>

\* lines 438-453: only $PXi<Output<OpenDrain>> has internal_pull_up
internal_pull_up ==
    \E i \in ModelPins, on \in BOOLEAN :
        /\ pins[i] = "Output<OpenDrain>"
        /\ pxx[i] = None
        /\ pupdr' = or(and(pupdr, not(shl(u32(3), mode_offset(i)))),
                       IF on THEN shl(u32(1), mode_offset(i)) ELSE u32(0))
        /\ UNCHANGED << ahb_vars, moder, otyper, afrl, afrh, pins >>
        /\ UNCHANGED << rcc_vars, rest_vars >>

(***************************************************************************)
(* gpio.rs: downgrade and the two OutputPin implementations                *)
(***************************************************************************)
\* the hardware: a write of w to BSRR sets the ODR bits named in w[15:0]
\* and resets those named in w[31:16], a set bit winning over a reset bit
BSRR_effect(o, w) ==
    or(and(o, not({ b - 16 : b \in and(w, 16..31) })), and(w, 0..15))

level_unchanged ==
    UNCHANGED << rcc_vars, ahb_vars, moder, pupdr, otyper, afrl, afrh, pins,
                 moder0, main, isr >>

\* mutant: the erased pin made with index 0 whatever the pin
downgrade_index_0 ==
    \E i \in ModelPins :
        /\ pins[i] \in { "Output<PushPull>", "Output<OpenDrain>" }
        /\ pxx[i] = None
        /\ pxx' = [pxx EXCEPT ![i] = Some(0)]
        /\ UNCHANGED << odr, bsrr, level >>
        /\ level_unchanged

\* lines 455-466: $PXx { i: $i, _mode: self._mode }
downgrade ==
    \E i \in ModelPins :
        /\ pins[i] \in { "Output<PushPull>", "Output<OpenDrain>" }
        /\ pxx[i] = None
        /\ pxx' = [pxx EXCEPT ![i] = Some(i)]
        /\ UNCHANGED << odr, bsrr, level >>
        /\ level_unchanged

\* lines 473-476: odr.read().bits() & (1 << $i) == 0
PXi_is_low(i) == and(odr, shl(u32(1), i)) = {}

\* lines 469-471: !self.is_low()
PXi_is_high(i) == ~PXi_is_low(i)

\* lines 478-481: bsrr.write(|w| w.bits(1 << $i))
PXi_set_high ==
    \E i \in ModelPins :
        /\ pins[i] \in { "Output<PushPull>", "Output<OpenDrain>" }
        /\ pxx[i] = None
        /\ bsrr' = Some([by |-> i, word |-> shl(u32(1), i)])
        /\ odr' = BSRR_effect(odr, shl(u32(1), i))
        /\ level' = [level EXCEPT ![i] = "high"]
        /\ UNCHANGED pxx
        /\ level_unchanged

\* mutant: set_low writing bit i, the set half of the register
PXi_set_low_no_offset ==
    \E i \in ModelPins :
        /\ pins[i] \in { "Output<PushPull>", "Output<OpenDrain>" }
        /\ pxx[i] = None
        /\ bsrr' = Some([by |-> i, word |-> shl(u32(1), i)])
        /\ odr' = BSRR_effect(odr, shl(u32(1), i))
        /\ level' = [level EXCEPT ![i] = "low"]
        /\ UNCHANGED pxx
        /\ level_unchanged

\* lines 483-486: bsrr.write(|w| w.bits(1 << (16 + $i)))
PXi_set_low ==
    \E i \in ModelPins :
        /\ pins[i] \in { "Output<PushPull>", "Output<OpenDrain>" }
        /\ pxx[i] = None
        /\ bsrr' = Some([by |-> i, word |-> shl(u32(1), 16 + i)])
        /\ odr' = BSRR_effect(odr, shl(u32(1), 16 + i))
        /\ level' = [level EXCEPT ![i] = "low"]
        /\ UNCHANGED pxx
        /\ level_unchanged

\* lines 214-217: odr.read().bits() & (1 << self.i) == 0
PXx_is_low(self) == and(odr, shl(u32(1), self.i)) = {}

\* lines 210-212: !self.is_low()
PXx_is_high(self) == ~PXx_is_low(self)

\* lines 219-222: bsrr.write(|w| w.bits(1 << self.i)), on the erased handle
\* of pin p
PXx_set_high ==
    \E p \in ModelPins :
        /\ pxx[p] # None
        /\ LET self == [i |-> unwrap(pxx[p])]
           IN  /\ bsrr' = Some([by |-> p, word |-> shl(u32(1), self.i)])
               /\ odr' = BSRR_effect(odr, shl(u32(1), self.i))
        /\ level' = [level EXCEPT ![p] = "high"]
        /\ UNCHANGED pxx
        /\ level_unchanged

\* lines 224-227: bsrr.write(|w| w.bits(1 << (16 + self.i)))
PXx_set_low ==
    \E p \in ModelPins :
        /\ pxx[p] # None
        /\ LET self == [i |-> unwrap(pxx[p])]
           IN  /\ bsrr' = Some([by |-> p, word |-> shl(u32(1), 16 + self.i)])
               /\ odr' = BSRR_effect(odr, shl(u32(1), 16 + self.i))
        /\ level' = [level EXCEPT ![p] = "low"]
        /\ UNCHANGED pxx
        /\ level_unchanged

(***************************************************************************)
(* gpio.rs: a transition as the register accesses it is made of.  Every    *)
(* transition of lines 238-435 is a modify of MODER followed by a modify   *)
(* of a second register, and a modify is a read followed by a write.       *)
(***************************************************************************)
Transitions ==
    { "as_af4", "as_af5", "as_af6", "as_af7", "as_floating_input",
      "as_pull_down_input", "as_pull_up_input", "as_open_drain_output",
      "as_push_pull_output" }

\* the return type of each transition
tag_of(op) ==
    CASE op = "as_af4" -> "AF4"
      [] op = "as_af5" -> "AF5"
      [] op = "as_af6" -> "AF6"
      [] op = "as_af7" -> "AF7"
      [] op = "as_floating_input" -> "Input<Floating>"
      [] op = "as_pull_down_input" -> "Input<PullDown>"
      [] op = "as_pull_up_input" -> "Input<PullUp>"
      [] op = "as_open_drain_output" -> "Output<OpenDrain>"
      [] op = "as_push_pull_output" -> "Output<PushPull>"

\* one modify: the register, the bits its closure clears and the bits it
\* sets in the word read
field(reg, mask, value, offset) ==
    [reg |-> reg, mask |-> shl(u32(mask), offset),
     bits |-> shl(u32(value), offset)]

\* the two modify calls of each transition on pin i, in program order
modifies(op, i) ==
    CASE op = "as_af4" ->
            << field("MODER", 3, 2, mode_offset(i)),
               field(AFR(i), 15, 4, af_offset(i)) >>
      [] op = "as_af5" ->
            << field("MODER", 3, 2, mode_offset(i)),
               field(AFR(i), 15, 5, af_offset(i)) >>
      [] op = "as_af6" ->
            << field("MODER", 3, 2, mode_offset(i)),
               field(AFR(i), 15, 6, af_offset(i)) >>
      [] op = "as_af7" ->
            << field("MODER", 3, 2, mode_offset(i)),
               field(AFR(i), 15, 7, af_offset(i)) >>
      [] op = "as_floating_input" ->
            << field("MODER", 3, 0, mode_offset(i)),
               field("PUPDR", 3, 0, mode_offset(i)) >>
      [] op = "as_pull_down_input" ->
            << field("MODER", 3, 0, mode_offset(i)),
               field("PUPDR", 3, 2, mode_offset(i)) >>
      [] op = "as_pull_up_input" ->
            << field("MODER", 3, 0, mode_offset(i)),
               field("PUPDR", 3, 1, mode_offset(i)) >>
      [] op = "as_open_drain_output" ->
            << field("MODER", 3, 1, mode_offset(i)),
               field("OTYPER", 0, 1, i) >>
      [] op = "as_push_pull_output" ->
            << field("MODER", 3, 1, mode_offset(i)),
               field("OTYPER", 1, 0, i) >>

\* the word a modify writes when its read returned r
modify(r, m) == or(and(r, not(m.mask)), m.bits)

\* the registers of the bank, by name
Regs ==
    [MODER |-> moder, PUPDR |-> pupdr, OTYPER |-> otyper, AFRL |-> afrl,
     AFRH |-> afrh]

\* the registers R after a whole transition ran on them undisturbed
after(op, i, R) ==
    LET m1 == modifies(op, i)[1]
        m2 == modifies(op, i)[2]
        R1 == [R EXCEPT ![m1.reg] = modify(R[m1.reg], m1)]
    IN  [R1 EXCEPT ![m2.reg] = modify(R1[m2.reg], m2)]

\* the registers of the bank become R
store(R) ==
    /\ moder' = R.MODER
    /\ pupdr' = R.PUPDR
    /\ otyper' = R.OTYPER
    /\ afrl' = R.AFRL
    /\ afrh' = R.AFRH

race_unchanged ==
    UNCHANGED << rcc_vars, ahb_vars, moder0, odr, bsrr, pxx, level >>

\* the read of moder.moder().modify
main_read_moder ==
    /\ main.op # "none"
    /\ main.pc = "read1"
    /\ main' = [main EXCEPT !.r = Regs[modifies(main.op, main.pin)[1].reg],
                            !.pc = "write1"]
    /\ UNCHANGED << moder, pupdr, otyper, afrl, afrh, pins, isr >>
    /\ race_unchanged

\* mutant: the write of the modify made on the register as it is now, not
\* on the word read
main_write_moder_atomic ==
    /\ main.op # "none"
    /\ main.pc = "write1"
    /\ LET m == modifies(main.op, main.pin)[1]
       IN  store([Regs EXCEPT ![m.reg] = modify(Regs[m.reg], m)])
    /\ main' = [main EXCEPT !.pc = "read2"]
    /\ UNCHANGED << pins, isr >>
    /\ race_unchanged

\* the write of moder.moder().modify
main_write_moder ==
    /\ main.op # "none"
    /\ main.pc = "write1"
    /\ LET m == modifies(main.op, main.pin)[1]
       IN  store([Regs EXCEPT ![m.reg] = modify(main.r, m)])
    /\ main' = [main EXCEPT !.pc = "read2"]
    /\ UNCHANGED << pins, isr >>
    /\ race_unchanged

\* the read of the second modify (pupdr, otyper or afr)
main_read_second ==
    /\ main.op # "none"
    /\ main.pc = "read2"
    /\ main' = [main EXCEPT !.r = Regs[modifies(main.op, main.pin)[2].reg],
                            !.pc = "write2"]
    /\ UNCHANGED << moder, pupdr, otyper, afrl, afrh, pins, isr >>
    /\ race_unchanged

\* the write of the second modify, and the pin returned with its new tag
main_write_second ==
    /\ main.op # "none"
    /\ main.pc = "write2"
    /\ LET m == modifies(main.op, main.pin)[2]
       IN  store([Regs EXCEPT ![m.reg] = modify(main.r, m)])
    /\ pins' = [pins EXCEPT ![main.pin] = tag_of(main.op)]
    /\ main' = [main EXCEPT !.pc = "done"]
    /\ UNCHANGED isr
    /\ race_unchanged

\* an interrupt handler that holds the other pin and proxies of its own
\* runs a whole transition, wherever main is
isr_transition ==
    /\ isr.op = "pending"
    /\ \E op \in Transitions :
          /\ store(after(op, isr.pin, Regs))
          /\ pins' = [pins EXCEPT ![isr.pin] = tag_of(op)]
          /\ isr' = [isr EXCEPT !.op = op, !.at = main.pc]
    /\ UNCHANGED main
    /\ race_unchanged

(***************************************************************************)
(* Vocabulary of the properties                                            *)
(***************************************************************************)
\* the dividers of the AHB prescaler
AhbLadder == { 1, 2, 4, 8, 16, 64, 128, 256, 512 }

\* the dividers of an APB prescaler
ApbLadder == { 1, 2, 4, 8, 16 }

\* the divider that the AHB prescaler applies for an HPRE encoding
AhbDividerOf(bits) ==
    CASE bits < 8 -> 1
      [] bits = 8 -> 2
      [] bits = 9 -> 4
      [] bits = 10 -> 8
      [] bits = 11 -> 16
      [] bits = 12 -> 64
      [] bits = 13 -> 128
      [] bits = 14 -> 256
      [] bits = 15 -> 512

Abs(x) == IF x < 0 THEN 0 - x ELSE x

\* the value of a ladder nearest to r, the larger one of two equally near
NearestIn(ladder, r) ==
    CHOOSE d \in ladder :
        \A e \in ladder :
            \/ Abs(d - r) < Abs(e - r)
            \/ Abs(d - r) = Abs(e - r) /\ d >= e

\* d is the smallest divider of the ladder that brings s down to t or below
SmallestNotAbove(ladder, d, s, t) ==
    /\ d \in ladder
    /\ s \div d <= t
    /\ \A e \in ladder : e < d => s \div e > t

\* the quotient a / b rounded down and rounded up, from their definitions
FloorQuot(a, b) == CHOOSE q \in 0..32 : q * b <= a /\ a < (q + 1) * b

CeilQuot(a, b) == CHOOSE q \in 0..32 : (q - 1) * b < a /\ a <= q * b

Clamp2to16(m) == IF m < 2 THEN 2 ELSE IF m > 16 THEN 16 ELSE m

\* the PLL multiplier in effect according to the registers: PLLMUL holds
\* the multiplier less 2 when the PLL is the clock source, 2 stands for bypass
ProgrammedMul == IF rcc_cfgr.sw = 2 THEN rcc_cfgr.pllmul + 2 ELSE 2

Returned == unwrap(clocks)

Done == pc = "done"

Aborted == pc = "panic"

AcrWrite == "FLASH.ACR.write"

PllSequence ==
    << "FLASH.ACR.write", "RCC.CFGR.write.pllmul", "RCC.CR.write.pllon",
       "RCC.CFGR.modify.sw" >>

HsiSequence == << "FLASH.ACR.write", "RCC.CFGR.write.sw" >>

IsPrefix(a, b) == Len(a) <= Len(b) /\ SubSeq(b, 1, Len(a)) = a

C2_RoundUp ==
    Done =>
        IF cfgr.sysclk = None
          THEN rcc_cfgr.sw = 0
          ELSE ProgrammedMul = Clamp2to16(CeilQuot(2 * unwrap(cfgr.sysclk), HSI))

(***************************************************************************)
(* C2, amended. With a system clock target t the multiplier is the         *)
(* quotient 2 * t / 8_000_000 rounded down, then clamped to [2,16];        *)
(* without a target it is the bypass value.                                *)
(***************************************************************************)
C2_RoundDown ==
    Done =>
        IF cfgr.sysclk = None
          THEN rcc_cfgr.sw = 0
          ELSE ProgrammedMul = Clamp2to16(FloorQuot(2 * unwrap(cfgr.sysclk), HSI))

\* freeze returned for 30 MHz, where 2 * t / 8 MHz = 7.5, with multiplier 7
C2_Witness ==
    /\ Done
    /\ cfgr.sysclk = Some(30000000)
    /\ rcc_cfgr.sw = 2
    /\ rcc_cfgr.pllmul = 5

ExactMultiple(parent, target) == \E k \in ApbLadder : parent = k * target

C4_Apb1Ceiling ==
    /\ Done => Returned.pclk1 <= 36000000 /\ panic = "none"
    /\ /\ pc # "build"
       /\ cfgr = [hclk |-> None, pclk1 |-> None, pclk2 |-> None,
                  sysclk |-> Some(48000000)]
       => Aborted /\ panic = "assert_pclk1" /\ clocks = None

\* the 48 MHz request has been frozen and has panicked
C4_Witness ==
    /\ Aborted
    /\ panic = "assert_pclk1"
    /\ cfgr = [hclk |-> None, pclk1 |-> None, pclk2 |-> None,
               sysclk |-> Some(48000000)]

(***************************************************************************)
(* C5. The flash latency is the first register freeze writes, before any   *)
(* write to RCC, in both branches, and freeze writes it once only.         *)
(***************************************************************************)
C5_LatencyFirstAndOnce ==
    /\ \A i \in 1..Len(log) : (log[i] = AcrWrite) <=> (i = 1)
    /\ Done => Len(log) >= 2
    /\ rcc_cfgr # CFGR_RESET \/ rcc_cr.pllon = 1 => Len(log) >= 2

\* freeze returned through the PLL branch: four writes, the first to FLASH
C5_Witness ==
    /\ Done
    /\ rcc_cfgr.sw = 2
    /\ Len(log) = 4
    /\ log[1] = AcrWrite

(***************************************************************************)
(* C6. In the PLL branch the writes are PLLMUL, PLLON, then (after PLLRDY  *)
(* was read set) one write of the prescalers with SW = PLL; SW is never    *)
(* PLL while PLLRDY is clear.                                              *)
(***************************************************************************)
C6_PllOrder ==
    /\ rcc_cfgr.sw = 2 => rcc_cr.pllrdy = 1 /\ rcc_cr.pllon = 1 /\ log = PllSequence
    /\ pc = "commit_pll" => rcc_cr.pllrdy = 1
    /\ rcc_cr.pllon = 1 => IsPrefix(<< AcrWrite, "RCC.CFGR.write.pllmul",
                                       "RCC.CR.write.pllon" >>, log)
    /\ IsPrefix(log, PllSequence) \/ IsPrefix(log, HsiSequence)

\* the source was switched to the PLL after the poll had read PLLRDY clear
C6_Witness ==
    /\ rcc_cfgr.sw = 2
    /\ polls > 0
    /\ Done

(***************************************************************************)
(* C7. When freeze returns, the latency written is 0 for sysclk <= 24 MHz, *)
(* 1 for 24 MHz < sysclk <= 48 MHz and 2 above 48 MHz.                     *)
(***************************************************************************)
C7_Latency ==
    Done =>
        /\ Returned.sysclk <= 24000000 => flash_acr.latency = 0
        /\ Returned.sysclk > 24000000 /\ Returned.sysclk <= 48000000
             => flash_acr.latency = 1
        /\ Returned.sysclk > 48000000 => flash_acr.latency = 2

\* freeze returned at the 48 MHz boundary with one wait state
C7_Witness ==
    /\ Done
    /\ Returned.sysclk = 48000000
    /\ flash_acr.latency = 1

(***************************************************************************)
(* C8. For a target t in [8 MHz, 72 MHz] the multiplier is an integer in   *)
(* [2,16], sysclk = pllmul * 8_000_000 / 2, and sysclk <= 72_000_000.      *)
(***************************************************************************)
C8_SysclkFromMultiplier ==
    /\ Done
    /\ cfgr.sysclk # None
    /\ unwrap(cfgr.sysclk) >= 8000000
    /\ unwrap(cfgr.sysclk) <= 72000000
    => /\ ProgrammedMul \in 2..16
       /\ Returned.sysclk = (ProgrammedMul * 8000000) \div 2
       /\ Returned.sysclk <= 72000000

\* freeze returned for the largest target of the range, 72 MHz
C8_Witness ==
    /\ Done
    /\ cfgr.sysclk = Some(72000000)
    /\ rcc_cfgr.sw = 2

(***************************************************************************)
(* C9. If the AHB target is above the system clock, or an APB target is    *)
(* above the AHB clock, freeze panics and returns no Clocks.               *)
(***************************************************************************)
AboveParent(cfg) ==
    \/ cfg.hclk # None /\ unwrap(cfg.hclk) > sysclk(cfg)
    \/ /\ hpre_bits(cfg) >= 0
       /\ \/ cfg.pclk1 # None /\ unwrap(cfg.pclk1) > hclk(cfg)
          \/ cfg.pclk2 # None /\ unwrap(cfg.pclk2) > hclk(cfg)

C9_AboveParentAborts ==
    pc # "build" /\ AboveParent(cfgr) => Aborted /\ clocks = None

\* freeze panicked on an APB2 target above the AHB clock
C9_Witness ==
    /\ Aborted
    /\ panic = "unreachable_pclk2"
    /\ cfgr.pclk2 # None
    /\ unwrap(cfgr.pclk2) > hclk(cfgr)


(***************************************************************************)
(* The fields of one pin, read back from the registers                     *)
(***************************************************************************)
Bit(v, b) == IF b \in v THEN 1 ELSE 0

ModeField(i) == 2 * Bit(moder, 2 * i + 1) + Bit(moder, 2 * i)

PullField(i) == 2 * Bit(pupdr, 2 * i + 1) + Bit(pupdr, 2 * i)

OutputTypeBit(i) == Bit(otyper, i)

\* the nibble of pin i: in the low register for i < 8, in the high one else
AfNibble(i) ==
    LET r == IF i < 8 THEN afrl ELSE afrh
        o == IF i < 8 THEN 4 * i ELSE 4 * (i - 8)
    IN  8 * Bit(r, o + 3) + 4 * Bit(r, o + 2) + 2 * Bit(r, o + 1) + Bit(r, o)

\* the registers say what the mode tag of pin i says
TagAgrees(i) ==
    CASE pins[i] = "Input<Floating>" -> ModeField(i) = 0 /\ PullField(i) = 0
      [] pins[i] = "Input<PullUp>" -> ModeField(i) = 0 /\ PullField(i) = 1
      [] pins[i] = "Input<PullDown>" -> ModeField(i) = 0 /\ PullField(i) = 2
      [] pins[i] = "Output<PushPull>" -> ModeField(i) = 1 /\ OutputTypeBit(i) = 0
      [] pins[i] = "Output<OpenDrain>" -> ModeField(i) = 1 /\ OutputTypeBit(i) = 1
      [] pins[i] = "AF4" -> ModeField(i) = 2 /\ AfNibble(i) = 4
      [] pins[i] = "AF5" -> ModeField(i) = 2 /\ AfNibble(i) = 5
      [] pins[i] = "AF6" -> ModeField(i) = 2 /\ AfNibble(i) = 6
      [] pins[i] = "AF7" -> ModeField(i) = 2 /\ AfNibble(i) = 7
      [] OTHER -> FALSE

(***************************************************************************)
(* C10. After split and any sequence of transitions, the mode, pull,       *)
(* output-type and alternate-function fields of every pin agree with its   *)
(* mode tag, and split hands out every pin as Input(Floating).             *)
(***************************************************************************)
C10_TagsAgreeWithRegisters ==
    /\ [](\A i \in ModelPins : pins[i] # "unsplit" => TagAgrees(i))
    /\ [][\A i \in ModelPins :
             pins[i] = "unsplit" /\ pins'[i] # "unsplit"
                => pins'[i] = "Input<Floating>"]_vars

\* PA10 has gone to AF7 and PA1 to open-drain output with its pull-up on
C10_Witness ==
    /\ pins[10] = "AF7"
    /\ pins[1] = "Output<OpenDrain>"
    /\ AfNibble(10) = 7
    /\ PullField(1) = 1


(***************************************************************************)
(* C11. A transition on pin i changes, in every register it writes, only   *)
(* the bits of pin i: mode bits 2i+1..2i, pull bits 2i+1..2i, output-type  *)
(* bit i, and the nibble at 4 * (i mod 8) of the pin's AFR register.       *)
(***************************************************************************)
Changed(a, b) == (a \ b) \cup (b \ a)

NibbleBits(i) == { 4 * (i % 8) + k : k \in 0..3 }

OnlyBitsOfPin(i) ==
    /\ Changed(moder, moder') \subseteq { 2 * i, 2 * i + 1 }
    /\ Changed(pupdr, pupdr') \subseteq { 2 * i, 2 * i + 1 }
    /\ Changed(otyper, otyper') \subseteq { i }
    /\ Changed(afrl, afrl') \subseteq (IF i < 8 THEN NibbleBits(i) ELSE {})
    /\ Changed(afrh, afrh') \subseteq (IF i >= 8 THEN NibbleBits(i) ELSE {})

C11_OnlyOwnBits ==
    [][(\A j \in ModelPins : pins[j] # "unsplit")
          => \E i \in ModelPins : OnlyBitsOfPin(i)]_vars

\* PA1 is an open-drain output and PA10 in alternate function with its
\* pull-down kept, and the fields of the debug pins are as reset left them
C11_Witness ==
    /\ ModeField(1) = 1
    /\ OutputTypeBit(1) = 1
    /\ ModeField(10) = 2
    /\ PullField(10) = 2
    /\ { 27, 29, 31 } \subseteq moder
    /\ moder \ { 2, 3, 20, 21 } = MODER_RESET

(***************************************************************************)
(* C12. as_afN on pin i writes 0b10 into mode bits 2i+1..2i and N into the *)
(* nibble at 4 * (i mod 8) of AFRL for i < 8 and of AFRH for i >= 8, and   *)
(* leaves every other bit of the registers as it was; as_af7 on pin 10     *)
(* writes 0b10 into MODER[21:20] and 0b0111 into AFRH[11:8].               *)
(***************************************************************************)
AfTag(n) ==
    CASE n = 4 -> "AF4" [] n = 5 -> "AF5" [] n = 6 -> "AF6" [] n = 7 -> "AF7"

\* the bits of the nibble of pin i that are 1 when the nibble holds n
NibbleOf(n, i) == { 4 * (i % 8) + k : k \in { b \in 0..3 : (n \div (2 ^ b)) % 2 = 1 } }

BecomesAf(i, n) == pins[i] # AfTag(n) /\ pins'[i] = AfTag(n)

C12_AfEncoding ==
    [][/\ \A i \in ModelPins, n \in 4..7 :
             BecomesAf(i, n) =>
                /\ moder' = (moder \ { 2 * i, 2 * i + 1 }) \cup { 2 * i + 1 }
                /\ i < 8 => /\ afrl' = (afrl \ NibbleBits(i)) \cup NibbleOf(n, i)
                            /\ afrh' = afrh
                /\ i >= 8 => /\ afrh' = (afrh \ NibbleBits(i)) \cup NibbleOf(n, i)
                             /\ afrl' = afrl
                /\ UNCHANGED << pupdr, otyper >>
       /\ BecomesAf(10, 7) =>
             /\ moder' = (moder \ { 20, 21 }) \cup { 21 }
             /\ afrh' = (afrh \ { 8, 9, 10, 11 }) \cup { 8, 9, 10 }
             /\ afrl' = afrl]_vars

\* PA10 is in AF7 with 0b0111 in AFRH[11:8], PA1 in AF5 with 0b0101 in
\* AFRL[7:4]
C12_Witness ==
    /\ pins[10] = "AF7"
    /\ afrh \cap { 8, 9, 10, 11 } = { 8, 9, 10 }
    /\ moder \cap { 20, 21 } = { 21 }
    /\ pins[1] = "AF5"
    /\ afrl \cap { 4, 5, 6, 7 } = { 4, 6 }


(***************************************************************************)
(* C13. For every pin index i and every content of MODER in which pin i is *)
(* an input, as_push_pull_output followed by as_floating_input on pin i    *)
(* leaves the mode field of pin i at 00 and the mode field of every other  *)
(* pin as it was.                                                          *)
(***************************************************************************)
FieldOf(r, j) == 2 * Bit(r, 2 * j + 1) + Bit(r, 2 * j)

C13_RoundTrip ==
    /\ [](\A i \in ModelPins :
             pins[i] = "Input<Floating>" => /\ ModeField(i) = 0
                                            /\ moder = moder0)
    /\ [][\A i \in ModelPins :
             pins[i] = "Output<PushPull>" /\ pins'[i] = "Input<Floating>" =>
                /\ FieldOf(moder0, i) = 0
                /\ FieldOf(moder, i) = 1
                /\ FieldOf(moder', i) = 0
                /\ \A j \in PinIndices \ { i } :
                      FieldOf(moder', j) = FieldOf(moder0, j)]_vars

\* pin 15 is back in Input<Floating> after as_push_pull_output cleared its
\* output-type bit, with every other pin of the bank in analog mode
C13_Witness ==
    /\ ModelPins = { 15 }
    /\ pins[15] = "Input<Floating>"
    /\ 15 \notin otyper
    /\ moder0 = Bits32 \ { 30, 31 }
    /\ moder = moder0


(***************************************************************************)
(* C14. On an output pin with index i, set_high is one write of exactly    *)
(* bit i and set_low one write of exactly bit 16+i to BSRR, made without   *)
(* reading a register; after set_high is_high is true and is_low false,    *)
(* after set_low the reverse; is_high is always the negation of is_low;    *)
(* the level of every other pin is unchanged; and the levels after writes  *)
(* to different pins do not depend on how the writes were interleaved.     *)
(***************************************************************************)
LastWriteBy(kind) ==
    /\ bsrr' # bsrr
    /\ bsrr' # None
    /\ (pxx[unwrap(bsrr').by] = None) <=> (kind = "PXi")

\* the last write is of exactly bit i (a set) or bit 16+i (a reset), and ODR
\* changed in bit i at most and as the write says
WroteBitOf(i) ==
    LET w == unwrap(bsrr').word
    IN  \/ /\ w = { i }
           /\ odr' = odr \cup { i }
           /\ level'[i] = "high"
        \/ /\ w = { 16 + i }
           /\ odr' = odr \ { i }
           /\ level'[i] = "low"

C14_LevelWrites ==
    /\ [](\A i \in ModelPins :
             /\ PXi_is_high(i) <=> ~PXi_is_low(i)
             /\ pxx[i] = None =>
                   /\ level[i] = "high" => PXi_is_high(i) /\ ~PXi_is_low(i)
                   /\ level[i] = "low" => PXi_is_low(i) /\ ~PXi_is_high(i))
    /\ [][/\ LastWriteBy("PXi") => WroteBitOf(unwrap(bsrr').by)
          /\ bsrr' = bsrr => odr' = odr]_vars

\* PA1 was set high and PA10, high before, was set low by the last write,
\* with pins 0, 11 and 15 of the bank high throughout
C14_Witness ==
    /\ ModelPins = { 1, 10 }
    /\ pxx = [i \in { 1, 10 } |-> None]
    /\ level[1] = "high"
    /\ level[10] = "low"
    /\ bsrr = Some([by |-> 10, word |-> { 26 }])
    /\ odr = { 0, 1, 11, 15 }


(***************************************************************************)
(* C15. Two transitions on different pins of a bank, run one after the     *)
(* other, both take effect and leave the same register contents in either  *)
(* order; when the read and the write of a read-modify-write on the shared *)
(* register are interleaved with the other transition, a state is          *)
(* reachable in which the update of one pin's field is lost.               *)
(***************************************************************************)
BothDone == main.op # "none" /\ main.pc = "done" /\ isr.op # "pending"

\* the handler ran before main's transition, between its two modify calls,
\* or after it: no read of main was separated from its write
Sequenced == isr.at \in { "read1", "read2", "done" }

C15_SequencedOrLost ==
    /\ BothDone /\ Sequenced =>
          /\ Regs = after(isr.op, isr.pin, after(main.op, main.pin, main.start))
          /\ Regs = after(main.op, main.pin, after(isr.op, isr.pin, main.start))
          /\ TagAgrees(main.pin)
          /\ TagAgrees(isr.pin)
    /\ BothDone /\ isr.at = "write1" =>
          /\ FieldOf(moder, isr.pin) = FieldOf(main.start.MODER, isr.pin)
          /\ TagAgrees(main.pin)
    /\ BothDone /\ ~TagAgrees(isr.pin) => isr.at \in { "write1", "write2" }

\* the handler made PA2 a push-pull output between the read and the write
\* of main's modify of MODER for PA1: PA1 is an open-drain output, and the
\* mode field of PA2 still says input under the tag Output<PushPull>
C15_Witness ==
    /\ BothDone
    /\ main.pin = 1
    /\ isr.pin = 2
    /\ isr.at = "write1"
    /\ pins[1] = "Output<OpenDrain>"
    /\ pins[2] = "Output<PushPull>"
    /\ FieldOf(moder, 1) = 1
    /\ FieldOf(moder, 2) = 0
    /\ ~TagAgrees(2)


(***************************************************************************)
(* C16. split does, in this order, a read-modify-write that sets the       *)
(* clock-enable bit of the bank, one that sets its reset bit and one that  *)
(* clears it; when it returns the clock is enabled, the reset bit clear,   *)
(* every other bit of the AHB enable and reset registers as before, and    *)
(* every pin in Input<Floating>.                                           *)
(***************************************************************************)
SplitSequence ==
    << "RCC.AHBENR.modify.iopaen.enabled", "RCC.AHBRSTR.modify.ioparst.set_bit",
       "RCC.AHBRSTR.modify.ioparst.clear_bit" >>

SplitReturns == split_pc # "done" /\ split_pc' = "done"

C16_SplitSequence ==
    /\ [](IsPrefix(log, SplitSequence))
    /\ [](split_pc = "done" => /\ log = SplitSequence
                               /\ 17 \in ahbenr
                               /\ 17 \notin ahbrstr)
    /\ [][/\ Changed(ahbenr, ahbenr') \subseteq { 17 }
          /\ Changed(ahbrstr, ahbrstr') \subseteq { 17 }
          /\ 17 \in ahbenr => 17 \in ahbenr'
          /\ SplitReturns =>
                \A i \in ModelPins : /\ pins'[i] = "Input<Floating>"
                                     /\ ModeField(i)' = 0
                                     /\ PullField(i)' = 0]_vars

\* split returned where another bank was enabled and a third held in reset
C16_Witness ==
    /\ split_pc = "done"
    /\ log = SplitSequence
    /\ \A i \in ModelPins : pins[i] = "Input<Floating>"
    /\ ahbenr = { 2, 4, 17, 18 }
    /\ ahbrstr = { 19 }


(***************************************************************************)
(* C17. The builder is commutative: the builder state and the Clocks that  *)
(* freeze returns depend only on the last argument given to each setter,   *)
(* whatever the order of the calls; a repeated call of a setter overwrites *)
(* the earlier value; a setter changes only its own field.                 *)
(***************************************************************************)
Fields == { "hclk", "pclk1", "pclk2", "sysclk" }

C17_BuilderCommutes ==
    /\ [](/\ cfgr = calls
          /\ Done => Returned = Clocks(calls))
    /\ [][\A f \in Fields :
             cfgr'[f] # cfgr[f] =>
                /\ calls'[f] # None
                /\ cfgr'[f] = calls'[f]
                /\ \A g \in Fields \ { f } : cfgr'[g] = cfgr[g]]_vars

\* freeze returned after each of the four setters was called at least once
C17_Witness ==
    /\ Done
    /\ calls = [hclk |-> Some(16000000), pclk1 |-> Some(5000000),
                pclk2 |-> Some(1000000), sysclk |-> Some(64000000)]
    /\ Returned.hclk = 16000000


(***************************************************************************)
(* C18. With no target set, freeze returns sysclk = hclk = pclk1 = pclk2   *)
(* = 8 MHz, writes flash latency 0, never writes the PLL-enable bit, never *)
(* polls PLL-ready, and writes the selector as internal oscillator.        *)
(***************************************************************************)
NoTargets == [hclk |-> None, pclk1 |-> None, pclk2 |-> None, sysclk |-> None]

InLog(w) == \E k \in 1..Len(log) : log[k] = w

C18_NoTargets ==
    cfgr = NoTargets =>
       /\ ~InLog("RCC.CR.write.pllon")
       /\ polls = 0
       /\ rcc_cr.pllon = 0
       /\ Done => /\ Returned.sysclk = 8000000
                  /\ Returned.hclk = 8000000
                  /\ Returned.pclk1 = 8000000
                  /\ Returned.pclk2 = 8000000
                  /\ flash_acr.latency = 0
                  /\ log = HsiSequence
                  /\ rcc_cfgr.sw = 0

\* freeze returned on a builder that no setter was called on
C18_Witness ==
    /\ Done
    /\ cfgr = NoTargets
    /\ Returned.ppre1 = 1
    /\ Returned.ppre2 = 1

(***************************************************************************)
(* C19. downgrade of an output pin with index i gives an erased pin with   *)
(* the same mode tag whose stored index is i, and is_high, is_low,         *)
(* set_high and set_low on the erased pin read or write the register bit   *)
(* that the same operation on the typed pin reads or writes.               *)
(***************************************************************************)
Downgrades(i) == pxx[i] = None /\ pxx'[i] # None

C19_ErasedPin ==
    /\ [](\A i \in ModelPins :
             pxx[i] # None =>
                /\ unwrap(pxx[i]) = i
                /\ pins[i] \in { "Output<PushPull>", "Output<OpenDrain>" }
                /\ PXx_is_low([i |-> unwrap(pxx[i])]) <=> PXi_is_low(i)
                /\ PXx_is_high([i |-> unwrap(pxx[i])]) <=> PXi_is_high(i)
                /\ level[i] = "high" => PXx_is_high([i |-> unwrap(pxx[i])])
                /\ level[i] = "low" => PXx_is_low([i |-> unwrap(pxx[i])]))
    /\ [][/\ \A i \in ModelPins :
                Downgrades(i) => /\ pxx'[i] = Some(i)
                                 /\ pins'[i] = pins[i]
          /\ LastWriteBy("PXx") => WroteBitOf(unwrap(bsrr').by)]_vars

\* PA10, an open-drain output, was downgraded and set high through the
\* erased handle; PA1 is still held typed and low
C19_Witness ==
    /\ ModelPins = { 1, 10 }
    /\ pxx[10] = Some(10)
    /\ pxx[1] = None
    /\ pins[10] = "Output<OpenDrain>"
    /\ level[10] = "high"
    /\ level[1] = "low"
    /\ bsrr = Some([by |-> 10, word |-> { 10 }])
    /\ 10 \in odr
    /\ 1 \notin odr


(***************************************************************************)
(* C20. freeze takes the PLL branch exactly when the clamped multiplier is *)
(* not 2. For multiplier 2 (no target, or a target below 12 MHz) the       *)
(* selector is the oscillator, sysclk is 8 MHz and the PLL is not touched; *)
(* for a multiplier in 3..16 the PLLMUL field holds the multiplier minus 2 *)
(* and the selector ends as PLL; no run takes both branches.               *)
(***************************************************************************)
ClampedMul ==
    IF cfgr.sysclk = None THEN 2
    ELSE Clamp2to16(FloorQuot(2 * unwrap(cfgr.sysclk), 8000000))

PllTouched ==
    \/ InLog("RCC.CFGR.write.pllmul")
    \/ InLog("RCC.CR.write.pllon")
    \/ polls > 0
    \/ rcc_cr.pllon = 1
    \/ rcc_cfgr.pllmul # 0

C20_BranchByMultiplier ==
    /\ ~(InLog("RCC.CFGR.write.sw") /\ InLog("RCC.CFGR.modify.sw"))
    /\ (cfgr.sysclk = None \/ unwrap(cfgr.sysclk) < 12000000) => ClampedMul = 2
    /\ ClampedMul = 2 => ~PllTouched
    /\ Done => /\ (log = PllSequence) <=> (ClampedMul # 2)
               /\ (log = HsiSequence) <=> (ClampedMul = 2)
               /\ ClampedMul = 2 => /\ rcc_cfgr.sw = 0
                                    /\ Returned.sysclk = 8000000
               /\ ClampedMul \in 3..16 => /\ rcc_cfgr.pllmul = ClampedMul - 2
                                          /\ rcc_cfgr.sw = 2

\* freeze returned for the smallest target that takes the PLL branch
C20_Witness ==
    /\ Done
    /\ cfgr.sysclk = Some(12000000)
    /\ rcc_cfgr.pllmul = 1
    /\ rcc_cfgr.sw = 2
    /\ Returned.sysclk = 12000000

(***************************************************************************)
(* C21. Every execution of freeze returns, aborts during validation, or    *)
(* spins forever in the PLL-ready poll.  In the bypass branch it returns   *)
(* once validation has passed.  In the PLL branch it switches the clock    *)
(* and returns if the hardware sets PLL-ready, and while PLL-ready is not  *)
(* set it neither returns nor writes the prescaler and selector.           *)
(***************************************************************************)
Spinning == pc = "poll_pllrdy" /\ rcc_cr.pllrdy = 0

InFreeze == pc \notin { "build", "panic", "done" }

C21_ReturnsAbortsOrSpins ==
    /\ <>[](pc = "build" \/ Done \/ Aborted \/ Spinning)
    /\ [][pc = "build" /\ pc' # "build" =>
             pc' \in { "panic", "write_latency" }]_vars
    /\ (InFreeze /\ ClampedMul = 2) ~> Done
    /\ (InFreeze /\ rcc_cr.pllrdy = 1) ~>
          (Done /\ log = PllSequence /\ rcc_cfgr.sw = 2)
    /\ [](rcc_cr.pllrdy = 0 =>
             /\ ~InLog("RCC.CFGR.modify.sw")
             /\ pc # "commit_pll"
             /\ ClampedMul # 2 => ~Done)

\* freeze has set PLLON and has read PLL-ready clear as often as the model
\* counts, and the bit is still clear
C21_Witness ==
    /\ Spinning
    /\ polls = MaxPolls
    /\ rcc_cr.pllon = 1
    /\ log = << "FLASH.ACR.write", "RCC.CFGR.write.pllmul", "RCC.CR.write.pllon" >>

(***************************************************************************)
(* C22. Validation precedes commit: when freeze aborts it has written no   *)
(* hardware register (flash latency, PLL multiplier, PLL enable,           *)
(* prescalers and selector are as they were), and once freeze has made its *)
(* first hardware write it cannot abort.                                   *)
(***************************************************************************)
C22_ValidationBeforeCommit ==
    /\ [](Aborted =>
             /\ panic # "none"
             /\ log = << >>
             /\ flash_acr = [latency |-> 0]
             /\ rcc_cfgr = CFGR_RESET
             /\ rcc_cr = [pllon |-> 0, pllrdy |-> 0]
             /\ polls = 0
             /\ clocks = None)
    /\ [](log # << >> => ~Aborted /\ panic = "none")
    /\ [][/\ log # << >> => pc' # "panic"
          /\ (pc # "panic" /\ pc' = "panic") =>
                UNCHANGED << flash_acr, rcc_cfgr, rcc_cr, log >>]_vars

\* freeze aborted on the APB1 ceiling under a 64 MHz system clock, a run in
\* which a write of the flash latency would have changed the register
C22_Witness ==
    /\ Aborted
    /\ panic = "assert_pclk1"
    /\ cfgr.sysclk = Some(64000000)
    /\ latency_bits(sysclk(cfgr)) # flash_acr.latency
    /\ log = << >>

(***************************************************************************)
(* C23. As stated: the hclk of the returned Clocks is the achieved sysclk  *)
(* divided by the divider that the hardware applies for the HPRE encoding  *)
(* that freeze programs (1, 2, 4, 8, 16, 64, 128, 256, 512 for 0b0111 to   *)
(* 0b1111), for every AHB target, ratios of 40 and above included; and     *)
(* pclk1 and pclk2 are hclk divided by the divider (1, 2, 4, 8, 16) of the *)
(* programmed PPRE1 and PPRE2 encodings.                                   *)
(***************************************************************************)
\* the divider that an APB prescaler applies for a PPRE encoding
ApbDividerOf(bits) ==
    CASE bits < 4 -> 1
      [] bits = 4 -> 2
      [] bits = 5 -> 4
      [] bits = 6 -> 8
      [] bits = 7 -> 16

C23_HclkFromHardwareDivider ==
    Done =>
        /\ Returned.hclk = Returned.sysclk \div AhbDividerOf(rcc_cfgr.hpre)
        /\ Returned.pclk1 = Returned.hclk \div ApbDividerOf(rcc_cfgr.ppre1)
        /\ Returned.pclk2 = Returned.hclk \div ApbDividerOf(rcc_cfgr.ppre2)

\* freeze returned for 64 MHz over an AHB target of 1 MHz: HPRE is 0b1100,
\* which divides by 64, and the Clocks says 2 MHz, 64 MHz over 1 << 5
C23_Witness ==
    /\ Done
    /\ cfgr.sysclk = Some(64000000)
    /\ cfgr.hclk = Some(1000000)
    /\ rcc_cfgr.hpre = 12
    /\ Returned.sysclk = 64000000
    /\ Returned.hclk = 2000000
    /\ Returned.sysclk \div AhbDividerOf(rcc_cfgr.hpre) = 1000000

(***************************************************************************)
(* C24. The multiplier being clamped to 16, the achieved sysclk is at most *)
(* 64 MHz for every request, so the 72 MHz checks of sysclk, hclk and      *)
(* pclk2 never fail; the one ceiling check that can abort freeze is        *)
(* pclk1 <= 36 MHz; and a request for 72 MHz gives 64 MHz, not 72 MHz and  *)
(* not an abort on sysclk.                                                 *)
(***************************************************************************)
C24_OnlyApb1CeilingAborts ==
    /\ sysclk(cfgr) <= 64000000
    /\ panic \notin { "assert_sysclk", "assert_hclk", "assert_pclk2" }
    /\ Done => /\ Returned.sysclk <= 64000000
               /\ Returned.hclk <= 64000000
               /\ Returned.pclk2 <= 64000000
               /\ Returned.pclk1 <= 36000000
    /\ (Done /\ cfgr.sysclk = Some(72000000)) => Returned.sysclk = 64000000
    /\ (Aborted /\ cfgr.sysclk = Some(72000000)) => panic # "assert_sysclk"

\* a request for 72 MHz with nothing asked of APB1: pclk1 would be 64 MHz
\* and freeze aborted on the 36 MHz check
C24_Witness ==
    /\ Aborted
    /\ panic = "assert_pclk1"
    /\ cfgr.sysclk = Some(72000000)
    /\ cfgr.pclk1 = None
    /\ sysclk(cfgr) = 64000000

(***************************************************************************)
(* C25. A transition writes MODER and the one other register it is given:  *)
(* as_push_pull_output, as_open_drain_output and as_afN leave the pull     *)
(* field of the pin as it was (a pulled input made an output or alternate  *)
(* function keeps its pull), the input transitions and as_afN leave its    *)
(* output-type bit, and the input and output transitions leave its         *)
(* alternate-function nibble; internal_pull_up writes PUPDR only.          *)
(***************************************************************************)
InputTags == { "Input<Floating>", "Input<PullUp>", "Input<PullDown>" }

OutputTags == { "Output<PushPull>", "Output<OpenDrain>" }

AfTags == { "AF4", "AF5", "AF6", "AF7" }

\* pin i leaves a transition with a tag in T that it did not have
Becomes(i, T) == pins[i] # "unsplit" /\ pins'[i] # pins[i] /\ pins'[i] \in T

C25_OtherFieldsKept ==
    [][/\ \A i \in ModelPins :
             /\ Becomes(i, OutputTags) =>
                   /\ PullField(i)' = PullField(i)
                   /\ AfNibble(i)' = AfNibble(i)
                   /\ UNCHANGED << pupdr, afrl, afrh >>
             /\ Becomes(i, AfTags) =>
                   /\ PullField(i)' = PullField(i)
                   /\ OutputTypeBit(i)' = OutputTypeBit(i)
                   /\ UNCHANGED << pupdr, otyper >>
             /\ Becomes(i, InputTags) =>
                   /\ OutputTypeBit(i)' = OutputTypeBit(i)
                   /\ AfNibble(i)' = AfNibble(i)
                   /\ UNCHANGED << otyper, afrl, afrh >>
       /\ (split_pc = "done" /\ pins' = pins) =>
             UNCHANGED << moder, otyper, afrl, afrh >>]_vars

\* PA1 went from pull-up input to push-pull output and is still pulled up;
\* PA10 went through AF7 and open-drain output to floating input and its
\* nibble is still 7 and its output-type bit still 1
C25_Witness ==
    /\ pins[1] = "Output<PushPull>"
    /\ PullField(1) = 1
    /\ pins[10] = "Input<Floating>"
    /\ OutputTypeBit(10) = 1
    /\ AfNibble(10) = 7


Init == RccInit /\ GpioReset

Next ==
    \/ CFGR_hclk
    \/ CFGR_pclk1
    \/ CFGR_pclk2
    \/ CFGR_sysclk
    \/ freeze_compute
    \/ freeze_write_latency
    \/ freeze_write_pllmul
    \/ freeze_write_pllon
    \/ freeze_poll_pllrdy
    \/ pll_lock
    \/ freeze_commit_pll
    \/ freeze_commit_hsi

Spec == Init /\ [][Next]_vars

\* a step of freeze after its checks have passed
freeze_step ==
    \/ freeze_write_latency
    \/ freeze_write_pllmul
    \/ freeze_write_pllon
    \/ freeze_poll_pllrdy
    \/ freeze_commit_pll
    \/ freeze_commit_hsi

\* the processor keeps executing freeze once it is inside it; nothing is
\* assumed of the caller before freeze, nor of the PLL
SpecFair == Spec /\ WF_vars(freeze_step)

(***************************************************************************)
(* The GPIO bank: split, then the pin transitions                          *)
(***************************************************************************)
InitGpio == RccInit /\ GpioInit

NextGpio ==
    \/ split_enable
    \/ split_assert_reset
    \/ split_deassert_reset
    \/ split_return
    \/ as_af4
    \/ as_af5
    \/ as_af6
    \/ as_af7
    \/ as_floating_input
    \/ as_pull_down_input
    \/ as_pull_up_input
    \/ as_open_drain_output
    \/ as_push_pull_output
    \/ internal_pull_up

SpecGpio == InitGpio /\ [][NextGpio]_vars

(***************************************************************************)
(* One pin of a bank taken through output and back to input, from MODER    *)
(* contents that earlier code may have left                                *)
(***************************************************************************)
\* contents of MODER: every pin an input, every pin analog, the reset value
\* of GPIOA, every pin an output, every pin in alternate function mode
ModerPatterns ==
    { {}, Bits32, MODER_RESET, { b \in Bits32 : b % 2 = 0 },
      { b \in Bits32 : b % 2 = 1 } }

\* the pull field that each input transition writes
pull_of(tag) ==
    CASE tag = "Input<Floating>" -> 0
      [] tag = "Input<PullUp>" -> 1
      [] tag = "Input<PullDown>" -> 2

\* pin i held as an input, its output-type bit left set by an earlier use
\* as open-drain output
InitRoundTrip ==
    /\ RccInit
    /\ split_pc = "done"
    /\ ahbenr = or(AHBENR_RESET, {IOPA})
    /\ ahbrstr = {}
    /\ \E i \in PinIndices, m \in ModerPatterns,
          tag \in { "Input<Floating>", "Input<PullUp>", "Input<PullDown>" } :
          /\ pins = [j \in { i } |-> tag]
          /\ moder = and(m, not(shl(u32(3), 2 * i)))
          /\ pupdr = shl(u32(pull_of(tag)), 2 * i)
          /\ otyper = shl(u32(1), i)
    /\ afrl = {}
    /\ afrh = {}
    /\ moder0 = moder
    /\ odr = {}
    /\ bsrr = None
    /\ pxx = [i \in DOMAIN pins |-> None]
    /\ level = [i \in DOMAIN pins |-> "unknown"]
    /\ main = Idle
    /\ isr = Idle

NextRoundTrip ==
    \/ as_push_pull_output
    \/ as_floating_input

SpecRoundTrip == InitRoundTrip /\ [][NextRoundTrip]_vars

(***************************************************************************)
(* Two pins of a bank made outputs, driven, and downgraded                 *)
(***************************************************************************)
\* the bank after split, pins i and i + 9 (mod 16) held, and other pins of
\* the bank driven low or high
InitLevel ==
    /\ RccInit
    /\ split_pc = "done"
    /\ ahbenr = or(AHBENR_RESET, {IOPA})
    /\ ahbrstr = {}
    /\ moder = {}
    /\ pupdr = {}
    /\ otyper = {}
    /\ afrl = {}
    /\ afrh = {}
    /\ moder0 = moder
    /\ \E i \in PinIndices :
          /\ pins = [k \in { i, (i + 9) % 16 } |-> "Input<Floating>"]
          /\ odr \in { {}, { 0, 11, 15 } \ { i, (i + 9) % 16 } }
    /\ bsrr = None
    /\ pxx = [k \in DOMAIN pins |-> None]
    /\ level = [k \in DOMAIN pins |-> "unknown"]
    /\ main = Idle
    /\ isr = Idle

NextLevel ==
    \/ as_open_drain_output
    \/ as_push_pull_output
    \/ downgrade
    \/ PXi_set_high
    \/ PXi_set_low
    \/ PXx_set_high
    \/ PXx_set_low

SpecLevel == InitLevel /\ [][NextLevel]_vars

(***************************************************************************)
(* A transition on one pin, with an interrupt handler running a transition *)
(* on another pin of the bank                                              *)
(***************************************************************************)
\* main holds pin a and the handler pin b, both as split returned them or
\* both as open-drain outputs with the pull-up on and an AF7 nibble left
InitRace ==
    /\ RccInit
    /\ split_pc = "done"
    /\ ahbenr = or(AHBENR_RESET, {IOPA})
    /\ ahbrstr = {}
    /\ \E a \in { 1, 10 }, b \in { 2, 9 }, op \in Transitions :
          /\ \/ /\ pins = [k \in { a, b } |-> "Input<Floating>"]
                /\ moder = MODER_RESET
                /\ pupdr = PUPDR_RESET
                /\ otyper = {}
                /\ afrl = {}
                /\ afrh = {}
             \/ /\ pins = [k \in { a, b } |-> "Output<OpenDrain>"]
                /\ moder = or(MODER_RESET, { 2 * a, 2 * b })
                /\ pupdr = or(PUPDR_RESET, { 2 * a, 2 * b })
                /\ otyper = { a, b }
                /\ afrl = UNION { shl(u32(7), 4 * k) : k \in { a, b } \cap 0..7 }
                /\ afrh = UNION { shl(u32(7), 4 * (k - 8)) : k \in { a, b } \cap 8..15 }
          /\ main = [op |-> op, pin |-> a, pc |-> "read1", r |-> {},
                     start |-> Regs]
          /\ isr = [op |-> "pending", pin |-> b, at |-> "none"]
    /\ moder0 = moder
    /\ odr = {}
    /\ bsrr = None
    /\ pxx = [k \in DOMAIN pins |-> None]
    /\ level = [k \in DOMAIN pins |-> "unknown"]

NextRace ==
    \/ main_read_moder
    \/ main_write_moder
    \/ main_read_second
    \/ main_write_second
    \/ isr_transition

SpecRace == InitRace /\ [][NextRace]_vars

====
